---- MODULE Spec2Model ----
(***************************************************************************)
(* Model of the two Android build-orchestration scripts of the repository, *)
(* assembleConfig.js and BBai-android.js.  Each script is a straight-line  *)
(* sequence of steps; every step is one action, guarded by the program     *)
(* counter pc.  JavaScript strings are modelled as sequences of            *)
(* one-character strings, so that toLowerCase, charAt/slice, endsWith,     *)
(* path.join and path.basename are computed rather than assumed.           *)
(***************************************************************************)
EXTENDS Integers, Sequences, FiniteSets, TLC

\* ------------------------------------------------------------------ bounds
\* largest number of entries the native build leaves in the APK directory
MaxEntries == 2

\* ----------------------------------------------------------- string helpers
LowerLetters == <<"a","b","c","d","e","f","g","h","i","j","k","l","m","n","o","p","q","r","s","t","u","v","w","x","y","z">>
UpperLetters == <<"A","B","C","D","E","F","G","H","I","J","K","L","M","N","O","P","Q","R","S","T","U","V","W","X","Y","Z">>

IndexIn(c, letters) ==
  IF \E i \in 1..Len(letters) : letters[i] = c
    THEN CHOOSE i \in 1..Len(letters) : letters[i] = c
    ELSE 0

\* String.prototype.toLowerCase
toLowerCase(s) ==
  [i \in 1..Len(s) |->
     IF IndexIn(s[i], UpperLetters) # 0
       THEN LowerLetters[IndexIn(s[i], UpperLetters)] ELSE s[i]]

\* String.prototype.toUpperCase
toUpperCase(s) ==
  [i \in 1..Len(s) |->
     IF IndexIn(s[i], LowerLetters) # 0
       THEN UpperLetters[IndexIn(s[i], LowerLetters)] ELSE s[i]]

\* s.charAt(0): the empty string when s is empty
charAt0(s) == IF Len(s) = 0 THEN << >> ELSE <<s[1]>>

\* s.slice(1)
slice1(s) == IF Len(s) <= 1 THEN << >> ELSE SubSeq(s, 2, Len(s))

\* variant: the whole word is upper-cased
Capitalize_all(s) == toUpperCase(s)
\* env.charAt(0).toUpperCase() + env.slice(1)
Capitalize(s) == toUpperCase(charAt0(s)) \o slice1(s)

\* String.prototype.endsWith
endsWith(s, suffix) ==
  /\ Len(s) >= Len(suffix)
  /\ SubSeq(s, Len(s) - Len(suffix) + 1, Len(s)) = suffix

startsWith(s, prefix) ==
  /\ Len(s) >= Len(prefix)
  /\ SubSeq(s, 1, Len(prefix)) = prefix

\* position of the last "/" of p, 0 when there is none
LastSlash(p) ==
  IF \E i \in 1..Len(p) : p[i] = "/"
    THEN CHOOSE i \in 1..Len(p) :
           p[i] = "/" /\ \A j \in (i+1)..Len(p) : p[j] # "/"
    ELSE 0

\* path.basename
basename(p) == SubSeq(p, LastSlash(p) + 1, Len(p))

\* directory part of a relative path (everything before the last "/")
dirname(p) == SubSeq(p, 1, LastSlash(p) - 1)

\* path.join of two segments (posix): one separator between them
pathJoin(a, b) ==
  IF a = << >> THEN b
  ELSE IF a[Len(a)] = "/" THEN a \o b
  ELSE a \o <<"/">> \o b

\* `${b}` of a boolean
BoolStr(b) == IF b THEN <<"t","r","u","e">> ELSE <<"f","a","l","s","e">>

\* ------------------------------------------------------- program constants
dev     == <<"d","e","v">>
uat     == <<"u","a","t">>
prod    == <<"p","r","o","d">>
release == <<"r","e","l","e","a","s","e">>
debug   == <<"d","e","b","u","g">>

\* variant: the list of environments has an entry too many
validEnvs_extra == {dev, uat, prod, <<"q","a">>}
validEnvs == {dev, uat, prod}
validBuildTypes == {release, debug}

\* the two script variants
Scripts == {"assembleConfig", "BBai"}

\* ------------------------------------------------------------------ inputs
\* first and second command-line arguments tried, and a surplus third one
EnvArgs  == {dev, uat, prod, <<"D","e","v">>, <<"q","a">>, << >>}
TypeArgs == {release, debug, <<"D","e","b","u","g">>, <<"R","E","L","E","A","S","E">>, <<"b","e","t","a">>, << >>}
ArgVectors ==
  {<< >>}
    \cup {<<e>> : e \in EnvArgs}
    \cup {<<e, t>> : e \in EnvArgs, t \in TypeArgs}
    \cup {<<e, t, <<"x">>>> : e \in {dev, <<"q","a">>}, t \in {release, <<"b","e","t","a">>}}

\* an optional string: process.env.X or args[1]
Undefined == [def |-> FALSE, val |-> << >>]
Str(s)    == [def |-> TRUE, val |-> s]

\* values of BITRISE_DEPLOY_DIR in the process environment at start
DeployDirs == {Undefined, Str(<< >>), Str(<<"/","d">>)}
\* values of BITRISE_DEPLOY_DIR the .env.<environment> file may define
EnvFileDeployDirs == {Undefined, Str(<<"/","e","/">>)}

Platforms == {"linux", "win32"}

\* JavaScript truthiness of an optional string
Truthy(o) == o.def /\ o.val # << >>

\* a || b on an optional string a and a string b
OrElse(o, d) == IF Truthy(o) THEN o.val ELSE d

\* args[i] (1-based here), undefined past the end
ArgAt(a, i) == IF i <= Len(a) THEN Str(a[i]) ELSE Undefined

\* ------------------------------------------------------------ path helpers
\* the working directory is kept relative to the project root: << >> is the
\* root itself, "android" the native project
RootDir == << >>

\* shell.cd(dir) for a one-segment relative dir that exists
cdInto(wd, dir) == pathJoin(wd, dir)

\* shell.cd('..')
cdUp(wd) == IF LastSlash(wd) = 0 THEN << >> ELSE dirname(wd)

\* a relative path seen from working directory wd
Resolve(wd, p) == pathJoin(wd, p)

\* variant: the file name ignores the environment
EnvFileName_fixed(e) == <<".","e","n","v",".","d","e","v">>
\* `.env.${env}`
EnvFileName(e) == <<".","e","n","v",".">> \o e

\* `android/app/src/${env}/assets/index.android.bundle`
BundlePath(e) == <<"a","n","d","r","o","i","d","/","a","p","p","/","s","r","c","/">> \o e \o <<"/","a","s","s","e","t","s","/","i","n","d","e","x",".","a","n","d","r","o","i","d",".","b","u","n","d","l","e">>
\* `android/app/src/${env}/assets`
AssetsDir(e) == <<"a","n","d","r","o","i","d","/","a","p","p","/","s","r","c","/">> \o e \o <<"/","a","s","s","e","t","s">>
\* `android/app/src/${env}/res`
ResDir(e) == <<"a","n","d","r","o","i","d","/","a","p","p","/","s","r","c","/">> \o e \o <<"/","r","e","s">>
BuildDir == <<"a","n","d","r","o","i","d","/","a","p","p","/","b","u","i","l","d">>

\* the bundler command line (template literal; a backslash-newline inside a
\* template literal is a line continuation, the next line's indent stays)
BundleCmd(e, isDev) ==
  <<"n","p","x"," ","e","n","v","-","c","m","d"," ","-","f"," ",".","e","n","v",".">> \o e
    \o <<" ","r","e","a","c","t","-","n","a","t","i","v","e"," ","b","u","n","d","l","e"," "," "," ","-","-","p","l","a","t","f","o","r","m"," ","a","n","d","r","o","i","d"," "," "," ","-","-","d","e","v"," ">> \o BoolStr(isDev)
    \o <<" "," "," ","-","-","e","n","t","r","y","-","f","i","l","e"," ","i","n","d","e","x",".","j","s"," "," "," ","-","-","b","u","n","d","l","e","-","o","u","t","p","u","t"," ">> \o BundlePath(e)
    \o <<" "," "," ","-","-","a","s","s","e","t","s","-","d","e","s","t"," ">> \o ResDir(e)

\* os.platform() === 'win32' ? 'gradlew.bat' : './gradlew'
\* (the platform is read when the command is built)
GradleCmd(pf) == IF pf = "win32" THEN <<"g","r","a","d","l","e","w",".","b","a","t">> ELSE <<".","/","g","r","a","d","l","e","w">>

\* `assemble${flavor}${typeCap}`
AssembleTask(e, bt) == <<"a","s","s","e","m","b","l","e">> \o Capitalize(e) \o Capitalize(bt)

\* `${gradleCmd} ${assembleTask}`
GradleLine(pf, e, bt) == GradleCmd(pf) \o <<" ">> \o AssembleTask(e, bt)

\* path.join('android','app','build','outputs','apk', env, buildType)
ApkDir(e, bt) ==
  pathJoin(pathJoin(<<"a","n","d","r","o","i","d","/","a","p","p","/","b","u","i","l","d","/","o","u","t","p","u","t","s","/","a","p","k">>, e), bt)

\* variant: the fixed path uses the build tool's default file name
ApkPath_default(e, bt) ==
  <<"a","p","p","/","b","u","i","l","d","/","o","u","t","p","u","t","s","/","a","p","k","/">> \o e \o <<"/">> \o bt
    \o <<"/","a","p","p","-">> \o e \o <<"-">> \o bt \o <<".","a","p","k">>
\* `app/build/outputs/apk/${env}/${buildType}/redone-${env}-${buildType}.apk`
ApkPath(e, bt) ==
  <<"a","p","p","/","b","u","i","l","d","/","o","u","t","p","u","t","s","/","a","p","k","/">> \o e \o <<"/">> \o bt
    \o <<"/","r","e","d","o","n","e","-">> \o e \o <<"-">> \o bt \o <<".","a","p","k">>

\* variant: only the file name is handed to the installer
AdbLine_basename(apk) == <<"a","d","b"," ","i","n","s","t","a","l","l"," ","-","r"," ">> \o basename(apk)
\* `adb install -r ${apkFile}`
AdbLine(apk) == <<"a","d","b"," ","i","n","s","t","a","l","l"," ","-","r"," ">> \o apk

\* ----------------------------------------- the native build tool's outputs
\* directory (from the project root) in which the native build leaves the
\* package of flavour e and build type bt
GradleOutputDir(e, bt) ==
  <<"a","n","d","r","o","i","d","/","a","p","p","/","b","u","i","l","d","/","o","u","t","p","u","t","s","/","a","p","k","/">> \o e \o <<"/">> \o bt

\* file name android/app/build.gradle gives the package
GradleApkName(e, bt) == <<"r","e","d","o","n","e","-">> \o e \o <<"-">> \o bt \o <<".","a","p","k">>

\* names the output directory may hold
\* entries the output directory may hold: the package under the configured
\* name (or a directory of that name), a package under another name, and a
\* file that is no package
Entries(e, bt) ==
  {[name |-> GradleApkName(e, bt), kind |-> "file"],
   [name |-> GradleApkName(e, bt), kind |-> "dir"],
   [name |-> <<"a",".","a","p","k">>, kind |-> "file"],
   [name |-> <<"m",".","x","a","p","k">>, kind |-> "file"]}

RECURSIVE Listings(_, _)
\* directory listings of at most n entries with pairwise different names
Listings(S, n) ==
  IF n = 0 THEN {<< >>}
  ELSE LET shorter == Listings(S, n - 1)
       IN  shorter \cup
           {Append(l, x) : l \in {k \in shorter : Len(k) = n - 1},
                           x \in S}

DistinctNames(l) ==
  \A i, j \in 1..Len(l) : l[i].name = l[j].name => i = j

NoOutputs == [path |-> << >>, exists |-> FALSE, entries |-> << >>]

\* what a successful run of the native build may leave for (e, bt)
BuildResults(e, bt) ==
  {NoOutputs} \cup
  {[path |-> GradleOutputDir(e, bt), exists |-> TRUE, entries |-> l] :
     l \in {k \in Listings(Entries(e, bt), MaxEntries) : DistinctNames(k)}}

\* what a previous build left before the script starts
StaleOutputs ==
  {NoOutputs} \cup
  {[path |-> GradleOutputDir(e, release), exists |-> TRUE,
    entries |-> <<[name |-> GradleApkName(e, release), kind |-> "file"]>>] :
     e \in {dev}}

\* ------------------------------------------------------------------- state
VARIABLES
  script,        \* which variant runs
  argv,          \* process.argv.slice(2)
  processEnv,    \* process.env.BITRISE_DEPLOY_DIR
  envFiles,      \* names of the .env.<x> files present next to the script
  envFileVar,    \* BITRISE_DEPLOY_DIR as the .env files define it
  bundles,       \* bundle files present (paths from the project root)
  madeDirs,      \* directories mkdir -p has ensured
  outputs,       \* the APK output directory of the native build
  deployed,      \* files copied to the deploy directory
  cwd,           \* working directory, relative to the project root
  pc,            \* position in the script
  exitCode,      \* process exit code, -1 while running
  env,           \* const env
  buildType,     \* const buildType
  apkFile,       \* apkFile / apkPath
  calls,         \* filesystem operations and subprocesses, in order
  steps,         \* steps of the workflow that ran, with their outcome
  report         \* lines of the final success message

vars == <<script, argv, processEnv, envFiles, envFileVar, bundles,
          madeDirs, outputs, deployed, cwd, pc, exitCode, env, buildType,
          apkFile, calls, steps, report>>

inputs == <<script, argv, envFiles, envFileVar>>

Init ==
  /\ script \in Scripts
  /\ argv \in ArgVectors
  /\ processEnv \in DeployDirs
  /\ envFiles \in {{}, {<<".","e","n","v",".","d","e","v">>}, {<<".","e","n","v",".","u","a","t">>, <<".","e","n","v",".","p","r","o","d">>}}
  /\ envFileVar \in EnvFileDeployDirs
  /\ outputs \in StaleOutputs
  /\ bundles = IF outputs.exists THEN {BundlePath(dev)} ELSE {}
  /\ madeDirs = {}
  /\ deployed = {}
  /\ cwd = RootDir
  /\ pc = "args"
  /\ exitCode = -1
  /\ env = << >>
  /\ buildType = << >>
  /\ apkFile = << >>
  /\ calls = << >>
  /\ steps = << >>
  /\ report = << >>

\* one filesystem operation or subprocess
Call(op, arg, arg2, code) ==
  [op |-> op, arg |-> arg, arg2 |-> arg2, code |-> code, wd |-> cwd]
\* one step of the workflow and whether it succeeded
Step(name, ok) == [name |-> name, ok |-> ok]

\* process.exit(code) / shell.exit(code)
Exit(code) == pc' = "exited" /\ exitCode' = code

\* ------------------------------------------------------------------ actions
\* args.length check, const env, const buildType
ParseArgs ==
  /\ pc = "args"
  /\ IF Len(argv) < 1 \/ Len(argv) > 2
       THEN Exit(1) /\ UNCHANGED <<env, buildType>>
       ELSE /\ env' = argv[1]
            /\ buildType' = toLowerCase(OrElse(ArgAt(argv, 2), release))
            /\ pc' = "validateEnv"
            /\ UNCHANGED exitCode
  /\ UNCHANGED <<inputs, processEnv, bundles, madeDirs, outputs, deployed,
                 cwd, apkFile, calls, steps, report>>

\* if (!validEnvs.includes(env)) exit
ValidateEnv ==
  /\ pc = "validateEnv"
  /\ IF env \notin validEnvs
       THEN Exit(1)
       ELSE pc' = "validateType" /\ UNCHANGED exitCode
  /\ UNCHANGED <<inputs, processEnv, bundles, madeDirs, outputs, deployed,
                 cwd, env, buildType, apkFile, calls, steps, report>>

\* if (!validBuildTypes.includes(buildType)) exit
ValidateBuildType ==
  /\ pc = "validateType"
  /\ IF buildType \notin validBuildTypes
       THEN Exit(1)
       ELSE pc' = "envFile" /\ UNCHANGED exitCode
  /\ UNCHANGED <<inputs, processEnv, bundles, madeDirs, outputs, deployed,
                 cwd, env, buildType, apkFile, calls, steps, report>>

\* -------------------------------------------------- filesystem queries
\* shell.test('-d', p) on the output tree
DirExists(fs, p) == fs.exists /\ p = fs.path

\* fs.readdirSync(p)
Readdir(fs, p) == [i \in 1..Len(fs.entries) |-> fs.entries[i].name]

\* fs.existsSync(p): any kind of entry
PathExists(fs, p) ==
  /\ fs.exists
  /\ \/ p = fs.path
     \/ \E i \in 1..Len(fs.entries) : p = pathJoin(fs.path, fs.entries[i].name)

\* shell.test('-f', p): a regular file
IsFile(fs, p) ==
  /\ fs.exists
  /\ \E i \in 1..Len(fs.entries) :
        /\ p = pathJoin(fs.path, fs.entries[i].name)
        /\ fs.entries[i].kind = "file"

\* files.filter(file => file.endsWith('.apk'))
ApkCandidates(files) == SelectSeq(files, LAMBDA f : endsWith(f, <<".","a","p","k">>))

\* result codes a shelljs command or a subprocess may return
Codes == {0, 1}

\* shell.test('-f', envFile); exit when the file is missing
CheckEnvFile ==
  /\ pc = "envFile"
  /\ LET present == EnvFileName(env) \in envFiles
     IN  /\ calls' = Append(calls, Call("test -f", EnvFileName(env), << >>,
                                        IF present THEN 0 ELSE 1))
         /\ steps' = Append(steps, Step("config-check", present))
         /\ IF present
              THEN pc' = "load" /\ UNCHANGED exitCode
              ELSE Exit(1)
  /\ UNCHANGED <<inputs, processEnv, bundles, madeDirs, outputs, deployed,
                 cwd, env, buildType, apkFile, report>>

\* dotenv.config({ path: envFile }): variables already set are kept
LoadEnv ==
  /\ pc = "load"
  /\ processEnv' = IF processEnv.def THEN processEnv ELSE envFileVar
  /\ calls' = Append(calls, Call("dotenv.config", EnvFileName(env), << >>, 0))
  /\ steps' = Append(steps, Step("load", TRUE))
  /\ pc' = "clean"
  /\ UNCHANGED <<inputs, bundles, madeDirs, outputs, deployed, cwd,
                 exitCode, env, buildType, apkFile, report>>

\* shell.rm('-rf', bundle); shell.rm('-rf', 'android/app/build')
\* the results are not looked at
Clean ==
  /\ pc = "clean"
  /\ \E c1 \in Codes, c2 \in Codes :
       /\ bundles' = IF c1 = 0
                       THEN bundles \ {Resolve(cwd, BundlePath(env))}
                       ELSE bundles
       /\ outputs' = IF c2 = 0 /\ startsWith(outputs.path,
                                             Resolve(cwd, BuildDir))
                       THEN NoOutputs
                       ELSE outputs
       /\ calls' = calls \o <<Call("rm -rf", BundlePath(env), << >>, c1),
                              Call("rm -rf", BuildDir, << >>, c2)>>
       /\ steps' = Append(steps, Step("clean", c1 = 0 /\ c2 = 0))
  /\ pc' = "mkdir"
  /\ UNCHANGED <<inputs, processEnv, madeDirs, deployed, cwd, exitCode, env,
                 buildType, apkFile, report>>

\* shell.mkdir('-p', assets); shell.mkdir('-p', res)
\* the results are not looked at
Mkdir ==
  /\ pc = "mkdir"
  /\ \E c1 \in Codes, c2 \in Codes :
       /\ madeDirs' = madeDirs
            \cup (IF c1 = 0 THEN {Resolve(cwd, AssetsDir(env))} ELSE {})
            \cup (IF c2 = 0 THEN {Resolve(cwd, ResDir(env))} ELSE {})
       /\ calls' = calls \o <<Call("mkdir -p", AssetsDir(env), << >>, c1),
                              Call("mkdir -p", ResDir(env), << >>, c2)>>
       /\ steps' = Append(steps, Step("mkdir", c1 = 0 /\ c2 = 0))
  /\ pc' = "bundle"
  /\ UNCHANGED <<inputs, processEnv, bundles, outputs, deployed, cwd,
                 exitCode, env, buildType, apkFile, report>>

\* const isDev = buildType === 'debug'
IsDev(bt) == bt = debug

\* variant: the bundler's result is not examined
Bundle_unchecked ==
  /\ pc = "bundle"
  /\ \E c \in Codes :
       /\ calls' = Append(calls, Call("exec",
                                      BundleCmd(env, IsDev(buildType)),
                                      << >>, c))
       /\ steps' = Append(steps, Step("bundler", c = 0))
       /\ bundles' = IF c = 0
                       THEN bundles \cup {Resolve(cwd, BundlePath(env))}
                       ELSE bundles
       /\ pc' = "gradle"
       /\ UNCHANGED exitCode
  /\ UNCHANGED <<inputs, processEnv, madeDirs, outputs, deployed, cwd, env,
                 buildType, apkFile, report>>

\* shell.exec(bundleCmd); exit on a non-zero code
Bundle ==
  /\ pc = "bundle"
  /\ \E c \in Codes :
       /\ calls' = Append(calls, Call("exec",
                                      BundleCmd(env, IsDev(buildType)),
                                      << >>, c))
       /\ steps' = Append(steps, Step("bundler", c = 0))
       /\ IF c # 0
            THEN Exit(1) /\ UNCHANGED bundles
            ELSE /\ bundles' = bundles \cup {Resolve(cwd, BundlePath(env))}
                 /\ pc' = "gradle"
                 /\ UNCHANGED exitCode
  /\ UNCHANGED <<inputs, processEnv, madeDirs, outputs, deployed, cwd, env,
                 buildType, apkFile, report>>

\* assembleConfig.js: shell.cd('android'); gradle; exit on failure;
\* shell.cd('..')
AC_Gradle ==
  /\ pc = "gradle"
  /\ script = "assembleConfig"
  /\ LET inAndroid == cdInto(cwd, <<"a","n","d","r","o","i","d">>)
         cd1 == Call("cd", <<"a","n","d","r","o","i","d">>, << >>, 0)
         run(pf, c) == [Call("exec", GradleLine(pf, env, buildType), << >>, c)
                          EXCEPT !.wd = inAndroid]
         cd2 == [Call("cd", <<".",".">>, << >>, 0) EXCEPT !.wd = inAndroid]
     IN  \E pf \in Platforms, c \in Codes :
           /\ steps' = Append(steps, Step("native-build", c = 0))
           /\ IF c # 0
                THEN /\ calls' = calls \o <<cd1, run(pf, c)>>
                     /\ cwd' = inAndroid
                     /\ Exit(1)
                     /\ UNCHANGED outputs
                ELSE /\ calls' = calls \o <<cd1, run(pf, c), cd2>>
                     /\ cwd' = cdUp(inAndroid)
                     /\ outputs' \in BuildResults(env, buildType)
                     /\ pc' = "locate"
                     /\ UNCHANGED exitCode
  /\ UNCHANGED <<inputs, processEnv, bundles, madeDirs, deployed, env,
                 buildType, apkFile, report>>

\* BBai-android.js: shell.cd('android'); gradle; exit on failure
BB_Gradle ==
  /\ pc = "gradle"
  /\ script = "BBai"
  /\ LET inAndroid == cdInto(cwd, <<"a","n","d","r","o","i","d">>)
         cd1 == Call("cd", <<"a","n","d","r","o","i","d">>, << >>, 0)
         run(pf, c) == [Call("exec", GradleLine(pf, env, buildType), << >>, c)
                          EXCEPT !.wd = inAndroid]
     IN  \E pf \in Platforms, c \in Codes :
           /\ steps' = Append(steps, Step("native-build", c = 0))
           /\ calls' = calls \o <<cd1, run(pf, c)>>
           /\ cwd' = inAndroid
           /\ IF c # 0
                THEN Exit(1) /\ UNCHANGED outputs
                ELSE /\ outputs' \in BuildResults(env, buildType)
                     /\ pc' = "locate"
                     /\ UNCHANGED exitCode
  /\ UNCHANGED <<inputs, processEnv, bundles, madeDirs, deployed, env,
                 buildType, apkFile, report>>

\* assembleConfig.js: directory scan; the first entry ending in .apk,
\* joined to apkDir, or '' when there is none
ScanLookup(fs, wd, e, bt) ==
  LET dir == ApkDir(e, bt)
      candidates ==
        IF DirExists(fs, Resolve(wd, dir))
          THEN ApkCandidates(Readdir(fs, Resolve(wd, dir)))
          ELSE << >>
  IN  IF Len(candidates) > 0 THEN pathJoin(dir, candidates[1]) ELSE << >>

\* assembleConfig.js: if (!apkFile || !fs.existsSync(apkFile)) fails
ScanFound(fs, wd, e, bt) ==
  /\ ScanLookup(fs, wd, e, bt) # << >>
  /\ PathExists(fs, Resolve(wd, ScanLookup(fs, wd, e, bt)))

\* BBai-android.js: shell.test('-f', apkPath)
FixedFound(fs, wd, e, bt) == IsFile(fs, Resolve(wd, ApkPath(e, bt)))

\* assembleConfig.js: locate the APK by scanning apkDir
AC_Locate ==
  /\ pc = "locate"
  /\ script = "assembleConfig"
  /\ LET dir == ApkDir(env, buildType)
         isDir == DirExists(outputs, Resolve(cwd, dir))
         file == ScanLookup(outputs, cwd, env, buildType)
         found == ScanFound(outputs, cwd, env, buildType)
     IN  /\ apkFile' = file
         /\ calls' = calls
              \o <<Call("test -d", dir, << >>, IF isDir THEN 0 ELSE 1)>>
              \o (IF isDir THEN <<Call("readdir", dir, << >>, 0)>> ELSE << >>)
              \o (IF file # << >>
                    THEN <<Call("exists", file, << >>,
                                IF found THEN 0 ELSE 1)>>
                    ELSE << >>)
         /\ steps' = Append(steps, Step("lookup", found))
         /\ IF found
              THEN pc' = "deliver" /\ UNCHANGED exitCode
              ELSE Exit(1)
  /\ UNCHANGED <<inputs, processEnv, bundles, madeDirs, outputs, deployed,
                 cwd, env, buildType, report>>

\* BBai-android.js: the APK is expected at a fixed path
BB_Locate ==
  /\ pc = "locate"
  /\ script = "BBai"
  /\ LET file == ApkPath(env, buildType)
         found == FixedFound(outputs, cwd, env, buildType)
     IN  /\ apkFile' = file
         /\ calls' = Append(calls, Call("test -f", file, << >>,
                                        IF found THEN 0 ELSE 1))
         /\ steps' = Append(steps, Step("lookup", found))
         /\ IF found
              THEN pc' = "deliver" /\ UNCHANGED exitCode
              ELSE Exit(1)
  /\ UNCHANGED <<inputs, processEnv, bundles, madeDirs, outputs, deployed,
                 cwd, env, buildType, report>>

\* if (deployDir): is the CI deploy directory given
UseDeployDir(o) == Truthy(o)

\* variant: the whole relative path is appended to the deploy directory
DeployTarget_fullPath(dir, apk) == pathJoin(dir, apk)
\* path.join(deployDir, path.basename(apkFile))
DeployTarget(dir, apk) == pathJoin(dir, basename(apk))

\* assembleConfig.js: copy to the deploy directory, or adb install
AC_Deliver ==
  /\ pc = "deliver"
  /\ script = "assembleConfig"
  /\ IF UseDeployDir(processEnv)
       THEN LET target == DeployTarget(processEnv.val, apkFile)
            IN  \E c \in IF IsFile(outputs, Resolve(cwd, apkFile))
                           THEN Codes ELSE Codes \ {0} :
                  /\ calls' = Append(calls, Call("cp", apkFile, target, c))
                  /\ steps' = Append(steps, Step("deliver", c = 0))
                  /\ IF c # 0
                       THEN Exit(1) /\ UNCHANGED deployed
                       ELSE /\ deployed' = deployed \cup {target}
                            /\ pc' = "report"
                            /\ UNCHANGED exitCode
       ELSE \E c \in Codes :
              /\ calls' = Append(calls, Call("exec", AdbLine(apkFile),
                                             << >>, c))
              /\ steps' = Append(steps, Step("deliver", c = 0))
              /\ UNCHANGED deployed
              /\ IF c # 0
                   THEN Exit(1)
                   ELSE pc' = "report" /\ UNCHANGED exitCode
  /\ UNCHANGED <<inputs, processEnv, bundles, madeDirs, outputs, cwd, env,
                 buildType, apkFile, report>>

\* BBai-android.js: adb install, whatever the environment says
BB_Install ==
  /\ pc = "deliver"
  /\ script = "BBai"
  /\ \E c \in Codes :
       /\ calls' = Append(calls, Call("exec", AdbLine(apkFile), << >>, c))
       /\ steps' = Append(steps, Step("deliver", c = 0))
       /\ IF c # 0
            THEN Exit(1)
            ELSE pc' = "report" /\ UNCHANGED exitCode
  /\ UNCHANGED <<inputs, processEnv, bundles, madeDirs, outputs, deployed,
                 cwd, env, buildType, apkFile, report>>

\* assembleConfig.js: final success message, then the script ends
AC_Report ==
  /\ pc = "report"
  /\ script = "assembleConfig"
  /\ report' = <<<<"B","u","i","l","d"," ","c","o","m","p","l","e","t","e","d",":"," ">> \o env \o <<" ","(">> \o buildType \o <<")">>,
                 <<"A","P","K"," ","l","o","c","a","t","i","o","n",":"," ">> \o apkFile>>
  /\ steps' = Append(steps, Step("report", TRUE))
  /\ Exit(0)
  /\ UNCHANGED <<inputs, processEnv, bundles, madeDirs, outputs, deployed,
                 cwd, env, buildType, apkFile, calls>>

\* BBai-android.js: final success message, then the script ends
BB_Report ==
  /\ pc = "report"
  /\ script = "BBai"
  /\ report' = <<<<"B","u","i","l","d"," ","c","o","m","p","l","e","t","e"," ","a","n","d"," ","A","P","K"," ","i","n","s","t","a","l","l","e","d",":"," ","[">> \o env
                   \o <<"]"," ","(">> \o buildType \o <<")">>>>
  /\ steps' = Append(steps, Step("report", TRUE))
  /\ Exit(0)
  /\ UNCHANGED <<inputs, processEnv, bundles, madeDirs, outputs, deployed,
                 cwd, env, buildType, apkFile, calls>>

Next ==
  \/ ParseArgs
  \/ ValidateEnv
  \/ ValidateBuildType
  \/ CheckEnvFile
  \/ LoadEnv
  \/ Clean
  \/ Mkdir
  \/ Bundle
  \/ AC_Gradle
  \/ BB_Gradle
  \/ AC_Locate
  \/ BB_Locate
  \/ AC_Deliver
  \/ BB_Install
  \/ AC_Report
  \/ BB_Report

Spec == Init /\ [][Next]_vars

\* ------------------------------------------------- vocabulary of the claims
Exited == pc = "exited"
ExitedNonZero == Exited /\ exitCode # 0 /\ exitCode # -1

EnvNames == {<<"d","e","v">>, <<"u","a","t">>, <<"p","r","o","d">>}

\* s contains sub
Contains(s, sub) ==
  \E i \in 1..(Len(s) - Len(sub) + 1) : SubSeq(s, i, i + Len(sub) - 1) = sub

IsSubprocess(c) == c.op = "exec"
IsBundler(c) == c.op = "exec" /\ Contains(c.arg, <<"r","e","a","c","t","-","n","a","t","i","v","e"," ","b","u","n","d","l","e">>)
IsGradle(c) == c.op = "exec" /\ Contains(c.arg, <<"g","r","a","d","l","e","w">>)
IsAdb(c) == c.op = "exec" /\ startsWith(c.arg, <<"a","d","b"," ","i","n","s","t","a","l","l">>)
IsCopy(c) == c.op = "cp"

Some(P(_)) == \E i \in 1..Len(calls) : P(calls[i])
Count(P(_)) == Cardinality({i \in 1..Len(calls) : P(calls[i])})
Ran(name) == \E i \in 1..Len(steps) : steps[i].name = name
RanOk(name) == \E i \in 1..Len(steps) : steps[i].name = name /\ steps[i].ok

\* the first argument is absent or names no environment
FirstArgBad == Len(argv) = 0 \/ argv[1] \notin EnvNames

\* the second argument as the interface describes it: release when omitted,
\* the lower-cased word when it is release or debug in any case, and no
\* build type otherwise
SecondArgRelease ==
  Len(argv) >= 2 /\ argv[2] \in {<<"r","e","l","e","a","s","e">>, <<"R","E","L","E","A","S","E">>, <<"R","e","l","e","a","s","e">>}
SecondArgDebug ==
  Len(argv) >= 2 /\ argv[2] \in {<<"d","e","b","u","g">>, <<"D","E","B","U","G">>, <<"D","e","b","u","g">>}
SecondArgBad == Len(argv) >= 2 /\ ~SecondArgRelease /\ ~SecondArgDebug

\* argument count in [1,2], a known environment, a known build type
ArgumentsValid ==
  /\ Len(argv) \in {1, 2}
  /\ argv[1] \in EnvNames
  /\ ~SecondArgBad

\* C1: a run whose first argument is not dev, uat or prod performs no
\* filesystem operation, starts no subprocess, and exits non-zero
C1_BadEnvironmentTouchesNothing ==
  FirstArgBad =>
    /\ calls = << >>
    /\ cwd = RootDir
    /\ madeDirs = {} /\ deployed = {}
    /\ pc \in {"args", "validateEnv", "exited"}
    /\ Exited => ExitedNonZero

C1_Witness ==
  /\ Len(argv) = 2 /\ argv[1] = <<"q","a">> /\ argv[2] = <<"r","e","l","e","a","s","e">>
  /\ ExitedNonZero

\* C2: with a valid environment, a supplied second argument that is not
\* release or debug in any case (the empty string included) makes the run
\* exit non-zero before any subprocess; the build type is release only when
\* the second argument is omitted (or is release itself)
C2_BadBuildTypeRejected ==
  /\ (Len(argv) = 2 /\ argv[1] \in EnvNames /\ SecondArgBad) =>
       /\ ~Some(IsSubprocess)
       /\ pc \in {"args", "validateEnv", "validateType", "exited"}
       /\ Exited => ExitedNonZero
  /\ (pc \notin {"args", "exited"} /\ buildType = <<"r","e","l","e","a","s","e">>) =>
       (Len(argv) = 1 \/ SecondArgRelease)

\* C3: with valid arguments and no .env.<environment> file, the run exits
\* non-zero and nothing after the existence test happens
EnvFileMissing ==
  Len(argv) >= 1 /\ (<<".","e","n","v",".">> \o argv[1]) \notin envFiles

C3_MissingConfigStopsRun ==
  (ArgumentsValid /\ EnvFileMissing) =>
    /\ \A i \in 1..Len(calls) :
         calls[i].op = "test -f" /\ calls[i].arg = <<".","e","n","v",".">> \o argv[1]
    /\ Len(calls) <= 1
    /\ madeDirs = {} /\ deployed = {} /\ cwd = RootDir
    /\ pc \in {"args", "validateEnv", "validateType", "envFile", "exited"}
    /\ Exited => ExitedNonZero

C3_Witness ==
  /\ ArgumentsValid /\ EnvFileMissing /\ argv[1] = <<"u","a","t">>
  /\ envFiles # {}
  /\ Len(calls) = 1
  /\ ExitedNonZero

\* the fixed order of the steps
StepOrder ==
  <<"config-check", "load", "clean", "mkdir", "bundler", "native-build",
    "lookup", "deliver", "report">>

\* the steps that ran are the first ones of the fixed order, each once
StepsArePrefix ==
  /\ Len(steps) <= Len(StepOrder)
  /\ \A i \in 1..Len(steps) : steps[i].name = StepOrder[i]

\* calls whose result the scripts examine
IsExamined(c) == c.op \in {"exec", "cp", "test -f", "test -d", "exists"}

\* a failed examined call is the last call and the run has exited non-zero
FailureIsFinal ==
  \A i \in 1..Len(calls) :
    (IsExamined(calls[i]) /\ calls[i].code # 0) =>
      i = Len(calls) /\ ExitedNonZero

\* a step that did not succeed is the last step and the run exited non-zero
FailedStepIsFinal(names) ==
  \A i \in 1..Len(steps) :
    (steps[i].name \in names /\ ~steps[i].ok) =>
      i = Len(steps) /\ ExitedNonZero

AllSteps == {StepOrder[i] : i \in 1..Len(StepOrder)}
\* the steps whose outcome the scripts examine
ExaminedSteps ==
  {"config-check", "bundler", "native-build", "lookup", "deliver"}

\* C4 as stated: the steps that ran are a prefix of the fixed sequence, each
\* once, every step starts only after all earlier steps succeeded, and a
\* failed subprocess, copy or existence check ends the run non-zero
C4_Original ==
  /\ StepsArePrefix
  /\ FailedStepIsFinal(AllSteps)
  /\ FailureIsFinal

\* C4 as amended: the steps that ran are a prefix of the fixed sequence, each
\* once; a step starts only after every earlier step has finished and every
\* earlier examined step (config check, bundler, native build, lookup, copy
\* or install) succeeded; the results of the clean and mkdir steps are not
\* examined; a failed subprocess, copy or existence check is the last thing
\* the run does and the run exits non-zero
C4_FailFastPrefix ==
  /\ StepsArePrefix
  /\ FailedStepIsFinal(ExaminedSteps)
  /\ FailureIsFinal

C4_Witness ==
  /\ Len(steps) = 6
  /\ ~steps[6].ok
  /\ \A i \in 1..5 : steps[i].ok
  /\ ExitedNonZero

\* C5: once the native build step has changed into the native project, the
\* working directory is back at its starting value when the process exits
C5_WorkingDirectoryRestored ==
  (Exited /\ Ran("native-build")) => cwd = RootDir

\* C6 as stated: when the artifact was located and BITRISE_DEPLOY_DIR is
\* set, the last step copies the artifact to <deployDir>/<basename> and adb
\* install is never run
ArtifactName == basename(apkFile)

CopiedToDeployDir ==
  /\ Count(IsCopy) = 1
  /\ \A i \in 1..Len(calls) :
       IsCopy(calls[i]) =>
         /\ calls[i].arg = apkFile
         /\ calls[i].arg2 \in
              {processEnv.val \o <<"/">> \o ArtifactName,
               IF endsWith(processEnv.val, <<"/">>)
                 THEN processEnv.val \o ArtifactName
                 ELSE processEnv.val \o <<"/">> \o ArtifactName}
         /\ ~Contains(ArtifactName, <<"/">>)
         /\ endsWith(ArtifactName, <<".","a","p","k">>)
         /\ calls[i].code = 0 => calls[i].arg2 \in deployed /\ ~ExitedNonZero
         /\ calls[i].code # 0 => deployed = {} /\ ExitedNonZero

C6_Original ==
  (Ran("deliver") /\ processEnv.def) =>
    CopiedToDeployDir /\ ~Some(IsAdb)

\* C6 as amended: in assembleConfig.js, when the artifact was located and
\* BITRISE_DEPLOY_DIR is set to a non-empty value, the artifact is copied to
\* <deployDir>/<basename>, adb install is never run, and a failed copy exits
\* non-zero
C6_DeployCopyInsteadOfInstall ==
  (script = "assembleConfig" /\ Ran("deliver")
     /\ processEnv.def /\ processEnv.val # << >>) =>
    CopiedToDeployDir /\ ~Some(IsAdb)

C6_Witness ==
  /\ script = "assembleConfig"
  /\ processEnv = Str(<<"/","d">>)
  /\ deployed = {<<"/","d","/","a",".","a","p","k">>}
  /\ Exited /\ exitCode = 0

C8_ExitCode ==
  /\ Exited =>
       /\ exitCode \in {0, 1}
       /\ exitCode = 0 <=>
            /\ ArgumentsValid
            /\ \A n \in ExaminedSteps : RanOk(n)
  /\ report # << >> => Exited /\ exitCode = 0
  /\ (Exited /\ exitCode = 0) => report # << >>

\* C9: for a valid (environment, buildType) the task is assemble<Env><Type>,
\* the bundler's --dev flag is true iff the build type is debug, and the
\* artifact is looked up under outputs/apk/<environment>/<buildType>
ExpectedType == IF SecondArgDebug THEN <<"d","e","b","u","g">> ELSE <<"r","e","l","e","a","s","e">>

ExpectedTask ==
  CASE argv[1] = <<"d","e","v">> /\ ~SecondArgDebug -> <<"a","s","s","e","m","b","l","e","D","e","v","R","e","l","e","a","s","e">>
    [] argv[1] = <<"d","e","v">> /\ SecondArgDebug -> <<"a","s","s","e","m","b","l","e","D","e","v","D","e","b","u","g">>
    [] argv[1] = <<"u","a","t">> /\ ~SecondArgDebug -> <<"a","s","s","e","m","b","l","e","U","a","t","R","e","l","e","a","s","e">>
    [] argv[1] = <<"u","a","t">> /\ SecondArgDebug -> <<"a","s","s","e","m","b","l","e","U","a","t","D","e","b","u","g">>
    [] argv[1] = <<"p","r","o","d">> /\ ~SecondArgDebug -> <<"a","s","s","e","m","b","l","e","P","r","o","d","R","e","l","e","a","s","e">>
    [] argv[1] = <<"p","r","o","d">> /\ SecondArgDebug -> <<"a","s","s","e","m","b","l","e","P","r","o","d","D","e","b","u","g">>

ExpectedApkDir ==
  <<"a","n","d","r","o","i","d","/","a","p","p","/","b","u","i","l","d","/","o","u","t","p","u","t","s","/","a","p","k","/">> \o argv[1] \o <<"/">> \o ExpectedType

IsLookup(c) ==
  \/ c.op \in {"test -d", "readdir", "exists"}
  \/ c.op = "test -f" /\ ~startsWith(c.arg, <<".","e","n","v",".">>)

C9_TaskFlagAndDirectory ==
  ArgumentsValid =>
    /\ pc \notin {"args", "exited"} => buildType = ExpectedType
    /\ \A i \in 1..Len(calls) :
         /\ IsGradle(calls[i]) =>
              /\ calls[i].arg \in {<<".","/","g","r","a","d","l","e","w"," ">> \o ExpectedTask,
                                   <<"g","r","a","d","l","e","w",".","b","a","t"," ">> \o ExpectedTask}
              /\ calls[i].wd = <<"a","n","d","r","o","i","d">>
         /\ IsBundler(calls[i]) =>
              /\ Contains(calls[i].arg, <<" ","-","-","d","e","v"," ","t","r","u","e"," ">>) <=> SecondArgDebug
              /\ Contains(calls[i].arg, <<" ","-","-","d","e","v"," ","f","a","l","s","e"," ">>) <=> ~SecondArgDebug
              /\ Contains(calls[i].arg, <<" ","-","-","p","l","a","t","f","o","r","m"," ","a","n","d","r","o","i","d"," ">>)
              /\ Contains(calls[i].arg, <<" ","-","-","e","n","t","r","y","-","f","i","l","e"," ","i","n","d","e","x",".","j","s"," ">>)
         /\ IsLookup(calls[i]) =>
              LET p == Resolve(calls[i].wd, calls[i].arg)
              IN  \/ p = ExpectedApkDir
                  \/ /\ startsWith(p, ExpectedApkDir \o <<"/">>)
                     /\ ~Contains(SubSeq(p, Len(ExpectedApkDir) + 2, Len(p)),
                                  <<"/">>)

C9_Witness ==
  /\ argv = <<<<"u","a","t">>, <<"D","e","b","u","g">>>>
  /\ Some(IsGradle) /\ Some(IsBundler) /\ Some(IsLookup)
  /\ \E i \in 1..Len(calls) :
       calls[i].arg = <<".","/","g","r","a","d","l","e","w"," ","a","s","s","e","m","b","l","e","U","a","t","D","e","b","u","g">>

\* the two lookups on the outputs of a finished native build: the directory
\* scan runs from the project root, the fixed path from the native project
ScanResult ==
  IF ScanFound(outputs, RootDir, env, buildType)
    THEN Resolve(RootDir, ScanLookup(outputs, RootDir, env, buildType))
    ELSE << >>
FixedResult ==
  IF FixedFound(outputs, <<"a","n","d","r","o","i","d">>, env, buildType)
    THEN Resolve(<<"a","n","d","r","o","i","d">>, ApkPath(env, buildType))
    ELSE << >>

ApkEntries ==
  {i \in 1..Len(outputs.entries) : endsWith(outputs.entries[i].name, <<".","a","p","k">>)}

\* the only entries ending in .apk, if any, are the regular file
\* redone-<env>-<buildType>.apk
OnlyConfiguredApk ==
  \A i \in ApkEntries :
    /\ outputs.entries[i].name =
         <<"r","e","d","o","n","e","-">> \o argv[1] \o <<"-">> \o ExpectedType \o <<".","a","p","k">>
    /\ outputs.entries[i].kind = "file"

\* C10 as stated: after a successful native build the fixed-path lookup and
\* the directory scan both fail or both resolve to the same file
C10_Original ==
  (pc = "locate") => ScanResult = FixedResult

\* C10 as amended: after a successful native build whose output directory
\* holds no entry ending in .apk other than the regular file
\* redone-<env>-<buildType>.apk, the fixed-path lookup and the directory scan
\* both fail or both resolve to the same file
C10_LookupsAgreeOnConfiguredName ==
  (pc = "locate" /\ ArgumentsValid /\ OnlyConfiguredApk) =>
    ScanResult = FixedResult

C10_Witness ==
  /\ pc = "locate"
  /\ ArgumentsValid /\ OnlyConfiguredApk
  /\ Len(outputs.entries) = 2
  /\ ScanResult # << >>
  /\ ScanResult = FixedResult
====
